---- MODULE Spec2Model ----
(***************************************************************************)
(* diet-bot backend (src/backend/index.js): the lowdb record store, the    *)
(* week calculator, the progress tracker, the generate / regenerate bot    *)
(* commands, the day schedule resolver and the notification scheduler, as  *)
(* one state machine.                                                      *)
(*                                                                         *)
(* Representation.                                                         *)
(*  - A JavaScript string that the code takes apart (a task key, a chat id *)
(*    of an HTTP request) is a sequence of symbols; "_" is a symbol of its *)
(*    own, a chat id is a sequence of decimal digits.  Strings that the    *)
(*    code only compares as a whole (slot times, day names, titles) are    *)
(*    TLA+ strings.                                                        *)
(*  - A JavaScript object is a function whose DOMAIN is its set of keys.   *)
(*    The week object user.progress[week] is one flat object: it holds the *)
(*    task entries and the keys "daily", "total" and "completed" side by   *)
(*    side, exactly as the code stores them.  Its values are tagged        *)
(*    (Bool, Num, Obj) because they are of different JavaScript types.     *)
(*  - A lowdb collection is a sequence of records (find = first match).    *)
(*  - Time is in seconds since the epoch.                                  *)
(***************************************************************************)
EXTENDS Integers, Sequences, FiniteSets, TLC

VARIABLES
    users,      \* db.users: <<[chatId, startDate, progress]>>
    schedules,  \* db.schedules: <<[chatId, tasks]>>
    workouts,   \* db.workouts: <<[chatId, week, day, title, description, details]>>
    meals,      \* db.meals: <<[chatId, day, mainMeal, snack]>>
    now,        \* the wall clock read by new Date()
    reply,      \* the last command or request with the response it produced
    updates,    \* number of update-progress requests served so far
    triggers,   \* the cron jobs registered by scheduleNotifications: <<[chatId, time, task]>>
    running,    \* the node process is alive
    zone,       \* offset in seconds of the time zone the process runs in
    fired,      \* indices of the triggers that have fired at the current instant
    sent,       \* the last firing at the current instant with what it dispatched
    pending,    \* update-progress requests received and not yet handled
    served      \* update-progress requests handled off the queue, in order

vars == <<users, schedules, workouts, meals, now, reply, updates,
          triggers, running, zone, fired, sent, pending, served>>

store == <<users, schedules, workouts, meals>>

scheduler == <<triggers, running, zone, fired, sent>>

queue == <<pending, served>>

----------------------------------------------------------------------------
(* Bounds of the model *)

\* the chats that issue commands and requests
ChatIds == {1, 2}
\* the week numbers the client sends in progress requests
ReqWeeks == {1}
\* update-progress requests served in one run
MaxUpdates == 2
\* clock advances (of one program week each) in one run of the full model
MaxClockWeeks == 1
\* days covered by the clock of the week-calculator model
MaxDays == 60

----------------------------------------------------------------------------
(* Program constants *)

SecPerDay == 86400
DaysPerWeek == 7
MaxProgramWeek == 8

----------------------------------------------------------------------------
(* JavaScript strings and objects *)

\* String.prototype.startsWith
StartsWith(s, p) == Len(p) <= Len(s) /\ SubSeq(s, 1, Len(p)) = p

\* String.prototype.includes
Includes(s, sub) ==
    \E i \in 1..(Len(s) - Len(sub) + 1) : SubSeq(s, i, i + Len(sub) - 1) = sub

\* task.split('_').length > 1
SplitsOnUnderscore(s) == \E i \in 1..Len(s) : s[i] = "_"

\* task.split('_')[0]: the part before the first "_"
FirstPart(s) ==
    LET i == CHOOSE j \in 1..Len(s) : s[j] = "_" /\ \A k \in 1..(j - 1) : s[k] # "_"
    IN  SubSeq(s, 1, i - 1)

\* parseInt of a string of decimal digits
RECURSIVE parseInt(_)
parseInt(s) ==
    IF Len(s) = 0 THEN 0
    ELSE 10 * parseInt(SubSeq(s, 1, Len(s) - 1)) + s[Len(s)]

\* String(n) for a number n >= 0, as parseInt applies it to a numeric argument
RECURSIVE ToStr(_)
ToStr(n) == IF n < 10 THEN <<n>> ELSE ToStr(n \div 10) \o <<n % 10>>

Bool(b) == [t |-> "bool", b |-> b]
Num(n) == [t |-> "num", n |-> n]
Obj(o) == [t |-> "obj", o |-> o]

EmptyObject == <<>>

\* obj[k] = v
Put(obj, k, v) == [x \in (DOMAIN obj) \cup {k} |-> IF x = k THEN v ELSE obj[x]]

\* !obj[k] is false: the key is present and its value is truthy
Truthy(obj, k) ==
    /\ k \in DOMAIN obj
    /\ CASE obj[k].t = "bool" -> obj[k].b
         [] obj[k].t = "num" -> obj[k].n # 0
         [] OTHER -> TRUE

\* value === true
IsTrue(v) == v.t = "bool" /\ v.b

KeyDaily == <<"daily">>
KeyTotal == <<"total">>
KeyCompleted == <<"completed">>

\* new Date().toISOString(): the calendar day and the time of day
toISOString(t) == [day |-> t \div SecPerDay, time |-> t % SecPerDay]

\* new Date(isoString)
ParseDate(iso) == iso.day * SecPerDay + iso.time

----------------------------------------------------------------------------
(* The catalog: scheduleData, the meal table and the workout plans *)

Weekdays == <<"Monday", "Tuesday", "Wednesday", "Thursday", "Friday", "Saturday", "Sunday">>

\* daysOfWeek of the get-progress backfill (lower case, as in task keys)
daysOfWeek ==
    << <<"monday">>, <<"tuesday">>, <<"wednesday">>, <<"thursday">>,
       <<"friday">>, <<"saturday">>, <<"sunday">> >>

scheduleData ==
    ("10:00" :> [title |-> "Black coffee or tea (optional)",
                 description |-> "No milk/sugar, helps suppress hunger"]) @@
    ("12:00" :> [title |-> "500ml water", description |-> "Stay hydrated"]) @@
    ("14:00" :> [title |-> "More water or herbal tea",
                 description |-> "Helps with satiety"]) @@
    ("16:00" :> [title |-> "Snack", description |-> "Today's scheduled snack"]) @@
    ("17:00" :> [title |-> "Workout (See schedule)",
                 description |-> "This could be running, VR fitness, or a bodyweight circuit."]) @@
    ("18:00" :> [title |-> "Post-workout water/shower",
                 description |-> "Replenish fluids."]) @@
    ("19:00" :> [title |-> "Free time/Relax",
                 description |-> "Do whatever you want to spend your time"]) @@
    ("21:00" :> [title |-> "Prepare Dinner", description |-> "Cooking time."]) @@
    ("22:00" :> [title |-> "Main Meal (OMAD) with Family",
                 description |-> "Large, balanced meal"]) @@
    ("00:30" :> [title |-> "Light walk or stretch", description |-> "Helps digestion"]) @@
    ("01:30" :> [title |-> "Sleep",
                 description |-> "Supports muscle recovery & fat loss"])

\* the meals table of generateMealData, in Object.entries order
mealTable ==
    << [day |-> "Monday", mainMeal |-> "Grilled chicken breast with rice and salad",
        snack |-> "Handful of almonds and a small apple."],
       [day |-> "Tuesday", mainMeal |-> "Lean beef stir-fry with vegetables and rice",
        snack |-> "Greek yogurt with berries."],
       [day |-> "Wednesday", mainMeal |-> "Baked chicken breast with roasted vegetables",
        snack |-> "Protein shake with water."],
       [day |-> "Thursday", mainMeal |-> "Healthy pasta with mixed vegetables",
        snack |-> "Handful of walnuts and a banana."],
       [day |-> "Friday", mainMeal |-> "Grilled chicken salad with rice on the side",
        snack |-> "Greek yogurt with a few berries."],
       [day |-> "Saturday", mainMeal |-> "Lean beef and vegetable kebabs with rice",
        snack |-> "Protein shake with water."],
       [day |-> "Sunday", mainMeal |-> "Chicken breast baked with herbs, vegetables, rice",
        snack |-> "A small handful of mixed nuts and an orange."] >>

\* workoutPlans: per week, the workout name of Monday .. Sunday
workoutPlans ==
    << [week |-> 1, schedule |->
          <<"Rest", "30 min VR fitness (moderate)", "Bodyweight Circuit 1",
            "30 min Run (easy pace)", "Bodyweight Circuit 1",
            "45 min VR fitness (moderate)", "Rest">>],
       [week |-> 2, schedule |->
          <<"35 min Run (easy pace)", "Bodyweight Circuit 2",
            "40 min VR fitness (moderate)", "Rest", "Bodyweight Circuit 2",
            "50 min Run (easy pace)", "Rest">>],
       [week |-> 3, schedule |->
          <<"Bodyweight Circuit 1", "45 min VR fitness (moderate/high)",
            "45 min Run (intervals: 2 min fast, 2 min slow)", "Bodyweight Circuit 1",
            "Rest", "60 min VR fitness (moderate/high)", "Rest">>],
       [week |-> 4, schedule |->
          <<"50 min Run (intervals: 3 min fast, 2 min slow)", "Bodyweight Circuit 2",
            "Rest", "50 min Run (steady pace)", "Bodyweight Circuit 2",
            "Long walk (60+ min)", "Rest">>],
       [week |-> 5, schedule |->
          <<"Rest", "VR fitness (moderate)", "Bodyweight Circuit 1", "Run (easy pace)",
            "Bodyweight Circuit 1", "VR fitness (moderate)", "Rest">>],
       [week |-> 6, schedule |->
          <<"Run (easy pace)", "Bodyweight Circuit 2", "VR fitness (moderate)", "Rest",
            "Bodyweight Circuit 2", "Run (easy pace)", "Rest">>],
       [week |-> 7, schedule |->
          <<"Bodyweight Circuit 1", "VR fitness (moderate/high)",
            "Run (intervals: 2 min fast, 2 min slow)", "Bodyweight Circuit 1", "Rest",
            "VR fitness (moderate/high)", "Rest">>],
       [week |-> 8, schedule |->
          <<"Run (intervals: 3 min fast, 2 min slow)", "Bodyweight Circuit 2", "Rest",
            "Run (steady pace)", "Bodyweight Circuit 2", "Long walk (60+ min)", "Rest">>] >>

\* bodyweightCircuits[workoutName], for the names the plans use
bodyweightCircuits ==
    ("Bodyweight Circuit 1" :> "Squats, Push-ups, Walking Lunges, Plank, Crunches") @@
    ("Bodyweight Circuit 2" :>
        "Jump Squats, Incline Push-ups, Reverse Lunges, Side Plank, Bicycle Crunches")

runDetails == "Start with a pace you can maintain comfortably."

\* workoutName.includes("Bodyweight Circuit"), over the names of workoutPlans
IncludesCircuit(workoutName) == workoutName \in DOMAIN bodyweightCircuits

\* workoutName.includes("Run"), over the names of workoutPlans
IncludesRun(workoutName) ==
    workoutName \in
        {"30 min Run (easy pace)", "35 min Run (easy pace)", "50 min Run (easy pace)",
         "45 min Run (intervals: 2 min fast, 2 min slow)",
         "50 min Run (intervals: 3 min fast, 2 min slow)", "50 min Run (steady pace)",
         "Run (easy pace)", "Run (intervals: 2 min fast, 2 min slow)",
         "Run (intervals: 3 min fast, 2 min slow)", "Run (steady pace)"}

\* the details text chosen in generateWorkoutData
workoutDetails(workoutName) ==
    IF IncludesRun(workoutName) THEN runDetails
    ELSE IF IncludesCircuit(workoutName) THEN bodyweightCircuits[workoutName]
    ELSE ""

----------------------------------------------------------------------------
(* The record store *)

\* the whole database as one value
DB == [users |-> users, schedules |-> schedules, workouts |-> workouts, meals |-> meals]

\* db.defaults(...) on an empty db.json
emptyDb == [users |-> <<>>, schedules |-> <<>>, workouts |-> <<>>, meals |-> <<>>]

\* index of the first row of coll with the chat id, 0 when there is none
FindIndex(coll, chatId) ==
    IF \E i \in 1..Len(coll) : coll[i].chatId = chatId
    THEN CHOOSE i \in 1..Len(coll) :
            /\ coll[i].chatId = chatId
            /\ \A j \in 1..(i - 1) : coll[j].chatId # chatId
    ELSE 0

\* db.get(coll).remove({chatId}).write()
RemoveChat(coll, chatId) == SelectSeq(coll, LAMBDA r : r.chatId # chatId)

\* the rows of coll with the chat id, in order
RowsOf(coll, chatId) == SelectSeq(coll, LAMBDA r : r.chatId = chatId)

\* getSchedule
getSchedule(db, chatId) ==
    LET i == FindIndex(db.schedules, parseInt(chatId))
    IN  IF i # 0 THEN [found |-> TRUE, tasks |-> db.schedules[i].tasks]
        ELSE [found |-> FALSE]

\* getWorkout: the first row of the chat, week and day
getWorkout(db, chatId, week, day) ==
    LET c == parseInt(chatId)
        w == parseInt(ToStr(week))
        Match(r) == r.chatId = c /\ r.week = w /\ r.day = day
    IN  IF \E i \in 1..Len(db.workouts) : Match(db.workouts[i])
        THEN [found |-> TRUE,
              row |-> db.workouts[CHOOSE i \in 1..Len(db.workouts) :
                          /\ Match(db.workouts[i])
                          /\ \A j \in 1..(i - 1) : ~Match(db.workouts[j])]]
        ELSE [found |-> FALSE]

\* getMeal: the first row of the chat and day
getMeal(db, chatId, day) ==
    LET c == parseInt(chatId)
        Match(r) == r.chatId = c /\ r.day = day
    IN  IF \E i \in 1..Len(db.meals) : Match(db.meals[i])
        THEN [found |-> TRUE,
              row |-> db.meals[CHOOSE i \in 1..Len(db.meals) :
                          /\ Match(db.meals[i])
                          /\ \A j \in 1..(i - 1) : ~Match(db.meals[j])]]
        ELSE [found |-> FALSE]

\* mealData of generateMealData: one row per entry of the meals table
mealData(c) ==
    [i \in 1..Len(mealTable) |->
        [chatId |-> c, day |-> mealTable[i].day,
         mainMeal |-> mealTable[i].mainMeal, snack |-> mealTable[i].snack]]

\* workoutData of generateWorkoutData: one row per plan and day, week by week
workoutData(c) ==
    LET nDays == Len(Weekdays)
    IN  [i \in 1..(Len(workoutPlans) * nDays) |->
            LET plan == workoutPlans[((i - 1) \div nDays) + 1]
                d == ((i - 1) % nDays) + 1
            IN  [chatId |-> c, week |-> plan.week, day |-> Weekdays[d],
                 title |-> plan.schedule[d],
                 description |-> "Workout for " \o Weekdays[d],
                 details |-> workoutDetails(plan.schedule[d])]]

\* the generated rows of every chat id of the model, computed once
mealRows == [c \in ChatIds |-> mealData(c)]

workoutRows == [c \in ChatIds |-> workoutData(c)]

\* generateMealData
generateMealData(db, chatId) ==
    [db EXCEPT !.meals = @ \o mealRows[parseInt(chatId)]]

\* generateWorkoutData
generateWorkoutData(db, chatId) ==
    [db EXCEPT !.workouts = @ \o workoutRows[parseInt(chatId)]]

\* generateSchedule
generateSchedule(db, chatId) ==
    IF FindIndex(db.schedules, parseInt(chatId)) = 0
    THEN generateWorkoutData(
            [db EXCEPT !.schedules =
                Append(@, [chatId |-> parseInt(chatId), tasks |-> scheduleData])],
            ToStr(parseInt(chatId)))
    ELSE db

----------------------------------------------------------------------------
(* WeekCalculator *)

Abs(x) == IF x < 0 THEN -x ELSE x

Min(a, b) == IF a < b THEN a ELSE b

\* calculateCurrentWeek without the cap at the program length
calculateCurrentWeek_Uncapped(db, chatId, t) ==
    LET i == FindIndex(db.users, parseInt(chatId))
    IN  IF i = 0 \/ "startDate" \notin DOMAIN db.users[i]
        THEN 1
        ELSE (Abs(t - ParseDate(db.users[i].startDate)) \div SecPerDay) \div DaysPerWeek + 1

\* calculateCurrentWeek rounding the elapsed days up instead of down
calculateCurrentWeek_CeilDays(db, chatId, t) ==
    LET i == FindIndex(db.users, parseInt(chatId))
    IN  IF i = 0 \/ "startDate" \notin DOMAIN db.users[i]
        THEN 1
        ELSE LET diffTime == Abs(t - ParseDate(db.users[i].startDate))
                 diffDays == (diffTime + SecPerDay - 1) \div SecPerDay
             IN  Min((diffDays \div DaysPerWeek) + 1, MaxProgramWeek)

\* calculateCurrentWeek that counts from the epoch when the start date is missing
calculateCurrentWeek_EpochStart(db, chatId, t) ==
    LET i == FindIndex(db.users, parseInt(chatId))
    IN  IF i = 0
        THEN 1
        ELSE LET startDate == IF "startDate" \in DOMAIN db.users[i]
                              THEN ParseDate(db.users[i].startDate) ELSE 0
                 diffDays == Abs(t - startDate) \div SecPerDay
             IN  Min((diffDays \div DaysPerWeek) + 1, MaxProgramWeek)

\* calculateCurrentWeek, with t the value of new Date()
calculateCurrentWeek(db, chatId, t) ==
    LET i == FindIndex(db.users, parseInt(chatId))
    IN  IF i = 0 \/ "startDate" \notin DOMAIN db.users[i]
        THEN 1
        ELSE LET startDate == ParseDate(db.users[i].startDate)
                 diffTime == Abs(t - startDate)
                 diffDays == diffTime \div SecPerDay
                 currentWeek == (diffDays \div DaysPerWeek) + 1
             IN  Min(currentWeek, MaxProgramWeek)

----------------------------------------------------------------------------
(* ProgressTracker *)

\* keys of the week object that start with day + '_'
DayKeys(weekObj, day) == {k \in DOMAIN weekObj : StartsWith(k, day \o <<"_">>)}

\* the day-tracking block of updateProgress (lines 420-442), on the week
\* object after the task has been set and daily has been initialised
updateDaily(weekObj, task) ==
    IF SplitsOnUnderscore(task)
    THEN LET day == FirstPart(task)
             daily == weekObj[KeyDaily].o
             initialised ==
                 IF day \notin DOMAIN daily
                 THEN Put(daily, day,
                          [completed |-> 0, total |-> Cardinality(DayKeys(weekObj, day))])
                 ELSE daily
             completedDayTasks ==
                 Cardinality({k \in DayKeys(weekObj, day) : IsTrue(weekObj[k])})
         IN  Put(weekObj, KeyDaily,
                 Obj([initialised EXCEPT ![day].completed = completedDayTasks]))
    ELSE weekObj

\* the week totals of updateProgress (lines 444-454)
updateTotals(weekObj) ==
    LET counted == {k \in DOMAIN weekObj : ~Includes(k, KeyDaily)}
        totalTasks == Cardinality(counted)
        completedTasks == Cardinality({k \in counted : IsTrue(weekObj[k])})
    IN  Put(Put(weekObj, KeyTotal, Num(totalTasks)), KeyCompleted, Num(completedTasks))

\* user.progress, {} when the record has none
ProgressOf(user) == IF "progress" \in DOMAIN user THEN user.progress ELSE EmptyObject

\* an assign that replaces the user record by its chat id and progress
AssignProgress_Replace(user, p) == [chatId |-> user.chatId, progress |-> p]

\* .assign({progress: p}) on a user record
AssignProgress(user, p) == ("progress" :> p) @@ user

\* updateProgress that writes a week object built from the request alone
updateProgress_FreshWeek(db, chatId, task, week, completed) ==
    LET i == FindIndex(db.users, parseInt(chatId))
    IN  IF i = 0 THEN db
        ELSE LET user == db.users[i]
                 progress == ProgressOf(user)
                 w1 == Put(EmptyObject, task, Bool(completed))
                 w2 == Put(w1, KeyDaily, Obj(EmptyObject))
                 w3 == updateTotals(updateDaily(w2, task))
             IN  [db EXCEPT !.users[i] = AssignProgress(user, Put(progress, week, w3))]

\* updateProgress that creates the user record when it finds none
updateProgress_Upsert(db, chatId, task, week, completed) ==
    LET i == FindIndex(db.users, parseInt(chatId))
        w == updateTotals(updateDaily(
                 Put(Put(EmptyObject, task, Bool(completed)), KeyDaily, Obj(EmptyObject)),
                 task))
    IN  IF i = 0
        THEN [db EXCEPT !.users =
                 Append(@, [chatId |-> parseInt(chatId), progress |-> (week :> w)])]
        ELSE LET user == db.users[i]
                 progress == ProgressOf(user)
                 w0 == IF week \in DOMAIN progress THEN progress[week] ELSE EmptyObject
                 w1 == Put(w0, task, Bool(completed))
                 w2 == IF ~Truthy(w1, KeyDaily)
                       THEN Put(w1, KeyDaily, Obj(EmptyObject)) ELSE w1
                 w3 == updateTotals(updateDaily(w2, task))
             IN  [db EXCEPT !.users[i] = AssignProgress(user, Put(progress, week, w3))]

\* updateProgress.  Task keys are ordinary slot ids: none of them is one of the
\* reserved keys "daily", "total", "completed".
updateProgress(db, chatId, task, week, completed) ==
    LET i == FindIndex(db.users, parseInt(chatId))
    IN  IF i = 0 THEN db
        ELSE LET user == db.users[i]
                 progress == ProgressOf(user)
                 w0 == IF week \in DOMAIN progress THEN progress[week] ELSE EmptyObject
                 w1 == Put(w0, task, Bool(completed))
                 w2 == IF ~Truthy(w1, KeyDaily)
                       THEN Put(w1, KeyDaily, Obj(EmptyObject)) ELSE w1
                 w3 == updateTotals(updateDaily(w2, task))
             IN  [db EXCEPT !.users[i] = AssignProgress(user, Put(progress, week, w3))]

\* the lazy backfill of GET /get-progress (lines 483-504): daily rebuilt from
\* the task keys of the seven canonical days
backfillDaily(weekObj) ==
    LET w0 == Put(weekObj, KeyDaily, Obj(EmptyObject))
        days == {daysOfWeek[n] : n \in 1..Len(daysOfWeek)}
        found == {day \in days : DayKeys(w0, day) # {}}
        daily == IF found = {} THEN EmptyObject
                 ELSE [day \in found |->
                         [total |-> Cardinality(DayKeys(w0, day)),
                          completed |->
                              Cardinality({k \in DayKeys(w0, day) : IsTrue(w0[k])})]]
    IN  Put(w0, KeyDaily, Obj(daily))

emptyProgress ==
    (KeyDaily :> Obj(EmptyObject)) @@ (KeyTotal :> Num(0)) @@ (KeyCompleted :> Num(0))

\* get-progress that answers with the week object as read, before the backfill
getProgress_StaleBody(db, chatId, week) ==
    LET i == FindIndex(db.users, parseInt(chatId))
    IN  IF i # 0 /\ "progress" \in DOMAIN db.users[i] /\ week \in DOMAIN db.users[i].progress
        THEN LET user == db.users[i]
                 weekObj == user.progress[week]
             IN  IF ~Truthy(weekObj, KeyDaily)
                 THEN [db |-> [db EXCEPT !.users[i] =
                                  AssignProgress(user,
                                      Put(user.progress, week, backfillDaily(weekObj)))],
                       body |-> weekObj]
                 ELSE [db |-> db, body |-> weekObj]
        ELSE [db |-> db, body |-> emptyProgress]

\* get-progress that stores the empty progress it answers with
getProgress_StoresEmpty(db, chatId, week) ==
    LET i == FindIndex(db.users, parseInt(chatId))
    IN  IF i # 0 /\ "progress" \in DOMAIN db.users[i] /\ week \in DOMAIN db.users[i].progress
        THEN LET user == db.users[i]
                 weekObj == user.progress[week]
             IN  IF ~Truthy(weekObj, KeyDaily)
                 THEN LET filled == backfillDaily(weekObj)
                      IN  [db |-> [db EXCEPT !.users[i] =
                                      AssignProgress(user, Put(user.progress, week, filled))],
                           body |-> filled]
                 ELSE [db |-> db, body |-> weekObj]
        ELSE IF i # 0
             THEN [db |-> [db EXCEPT !.users[i] =
                              AssignProgress(db.users[i],
                                  Put(ProgressOf(db.users[i]), week, emptyProgress))],
                   body |-> emptyProgress]
             ELSE [db |-> db, body |-> emptyProgress]

\* GET /get-progress: the store after the request and the response body
getProgress(db, chatId, week) ==
    LET i == FindIndex(db.users, parseInt(chatId))
    IN  IF i # 0 /\ "progress" \in DOMAIN db.users[i] /\ week \in DOMAIN db.users[i].progress
        THEN LET user == db.users[i]
                 weekObj == user.progress[week]
             IN  IF ~Truthy(weekObj, KeyDaily)
                 THEN LET filled == backfillDaily(weekObj)
                      IN  [db |-> [db EXCEPT !.users[i] =
                                      AssignProgress(user, Put(user.progress, week, filled))],
                           body |-> filled]
                 ELSE [db |-> db, body |-> weekObj]
        ELSE [db |-> db, body |-> emptyProgress]

----------------------------------------------------------------------------
(* Bot commands *)

\* the user record pushed by generate and regenerate
newUser(chatId, t) ==
    [chatId |-> parseInt(chatId), startDate |-> toISOString(t), progress |-> EmptyObject]

AlreadyHavePlan == "You already have a fitness plan. Use /regenerate if you want to start over."
PlanGenerated == "Your 8-week fitness plan has been generated! Check the mini-app to view your schedule."
PlanRegenerated == "Your fitness plan has been reset and regenerated! Check the mini-app to view your updated schedule."

\* generate without the check for an existing user
generate_Unguarded(db, chatId, t) ==
    LET withUser == [db EXCEPT !.users = Append(@, newUser(chatId, t))]
    IN  [db |-> generateMealData(generateSchedule(withUser, chatId), chatId),
         text |-> PlanGenerated]

\* bot.command("generate"): the store after the command and the text replied
generate(db, chatId, t) ==
    IF FindIndex(db.users, parseInt(chatId)) # 0
    THEN [db |-> db, text |-> AlreadyHavePlan]
    ELSE LET withUser == [db EXCEPT !.users = Append(@, newUser(chatId, t))]
         IN  [db |-> generateMealData(generateSchedule(withUser, chatId), chatId),
              text |-> PlanGenerated]

\* regenerate that leaves the old meal rows in place
regenerate_KeepsMeals(db, chatId, t) ==
    LET c == parseInt(chatId)
        removed == [users |-> RemoveChat(db.users, c),
                    schedules |-> RemoveChat(db.schedules, c),
                    workouts |-> RemoveChat(db.workouts, c),
                    meals |-> db.meals]
        withUser == [removed EXCEPT !.users = Append(@, newUser(chatId, t))]
    IN  [db |-> generateMealData(generateSchedule(withUser, chatId), chatId),
         text |-> PlanRegenerated]

\* regenerate that leaves the old workout rows in place
regenerate_KeepsWorkouts(db, chatId, t) ==
    LET c == parseInt(chatId)
        removed == [users |-> RemoveChat(db.users, c),
                    schedules |-> RemoveChat(db.schedules, c),
                    workouts |-> db.workouts,
                    meals |-> RemoveChat(db.meals, c)]
        withUser == [removed EXCEPT !.users = Append(@, newUser(chatId, t))]
    IN  [db |-> generateMealData(generateSchedule(withUser, chatId), chatId),
         text |-> PlanRegenerated]

\* bot.command("regenerate")
regenerate(db, chatId, t) ==
    LET c == parseInt(chatId)
        removed == [users |-> RemoveChat(db.users, c),
                    schedules |-> RemoveChat(db.schedules, c),
                    workouts |-> RemoveChat(db.workouts, c),
                    meals |-> RemoveChat(db.meals, c)]
        withUser == [removed EXCEPT !.users = Append(@, newUser(chatId, t))]
    IN  [db |-> generateMealData(generateSchedule(withUser, chatId), chatId),
         text |-> PlanRegenerated]

----------------------------------------------------------------------------
(* The day schedule *)

\* getScheduleForDay that leaves out a slot whose workout or meal row is missing
getScheduleForDay_SkipsMissing(db, chatId, day, t) ==
    LET schedule == getSchedule(db, chatId)
    IN  IF ~schedule.found THEN [found |-> FALSE]
        ELSE LET currentWeek == calculateCurrentWeek(db, chatId, t)
                 workout == getWorkout(db, chatId, currentWeek, day)
                 meal == getMeal(db, chatId, day)
                 kept == {time \in DOMAIN schedule.tasks :
                             /\ time = "17:00" => workout.found
                             /\ time \in {"16:00", "22:00"} => meal.found}
                 entry(time) ==
                     LET task == schedule.tasks[time]
                     IN  IF time = "17:00"
                         THEN [title |-> workout.row.title,
                               description |-> workout.row.description] @@ task
                         ELSE IF time = "16:00" THEN [mealContent |-> meal.row.snack] @@ task
                         ELSE IF time = "22:00"
                         THEN [mealContent |-> meal.row.mainMeal] @@ task
                         ELSE task
             IN  [found |-> TRUE, daySchedule |-> [time \in kept |-> entry(time)]]

\* getScheduleForDay that always takes the workout of week 1
getScheduleForDay_FirstWeek(db, chatId, day, t) ==
    LET schedule == getSchedule(db, chatId)
    IN  IF ~schedule.found THEN [found |-> FALSE]
        ELSE LET entry(time) ==
                     LET task == schedule.tasks[time]
                     IN  IF time = "17:00"
                         THEN LET workout == getWorkout(db, chatId, 1, day)
                              IN  IF workout.found
                                  THEN [title |-> workout.row.title,
                                        description |-> workout.row.description] @@ task
                                  ELSE task
                         ELSE IF time = "16:00" \/ time = "22:00"
                         THEN LET meal == getMeal(db, chatId, day)
                              IN  IF meal.found
                                  THEN LET mealType == IF time = "16:00" THEN "snack"
                                                       ELSE "mainMeal"
                                       IN  [mealContent |-> meal.row[mealType]] @@ task
                                  ELSE task
                         ELSE task
             IN  [found |-> TRUE,
                  daySchedule |-> [time \in DOMAIN schedule.tasks |-> entry(time)]]

\* getScheduleForDay, with t the value of new Date(): the template with the
\* workout and the meal of the day filled in
getScheduleForDay(db, chatId, day, t) ==
    LET schedule == getSchedule(db, chatId)
    IN  IF ~schedule.found THEN [found |-> FALSE]
        ELSE LET entry(time) ==
                     LET task == schedule.tasks[time]
                     IN  IF time = "17:00"
                         THEN LET currentWeek == calculateCurrentWeek(db, chatId, t)
                                  workout == getWorkout(db, chatId, currentWeek, day)
                              IN  IF workout.found
                                  THEN [title |-> workout.row.title,
                                        description |-> workout.row.description] @@ task
                                  ELSE task
                         ELSE IF time = "16:00" \/ time = "22:00"
                         THEN LET meal == getMeal(db, chatId, day)
                              IN  IF meal.found
                                  THEN LET mealType == IF time = "16:00" THEN "snack"
                                                       ELSE "mainMeal"
                                       IN  [mealContent |-> meal.row[mealType]] @@ task
                                  ELSE task
                         ELSE task
             IN  [found |-> TRUE,
                  daySchedule |-> [time \in DOMAIN schedule.tasks |-> entry(time)]]

\* GET /schedule: the status and the body of the response; day is "" when
\* the query has no day
getScheduleResponse(db, chatId, day, t) ==
    IF day # ""
    THEN LET schedule == getScheduleForDay(db, chatId, day, t)
         IN  IF schedule.found THEN [status |-> 200, body |-> schedule.daySchedule]
             ELSE [status |-> 404, body |-> [message |-> "Schedule not found for this day"]]
    ELSE LET schedule == getSchedule(db, chatId)
         IN  IF schedule.found THEN [status |-> 200, body |-> schedule.tasks]
             ELSE [status |-> 404, body |-> [message |-> "Schedule not found"]]

----------------------------------------------------------------------------
(* Scheduled notifications *)

\* the time zone of the cron jobs, "Asia/Tehran": UTC+3:30, in seconds
TehranOffset == 12600

\* the time zones the process may run in: UTC, or the zone of the cron jobs
ProcessZones == {0, TehranOffset}

\* the keys of scheduleData in Object.entries order
slotOrder ==
    <<"10:00", "12:00", "14:00", "16:00", "17:00", "18:00", "19:00", "21:00", "22:00",
      "00:30", "01:30">>

\* time.split(":") read as numbers by the cron pattern `${minute} ${hour} * * *`
cronTime ==
    ("10:00" :> [hour |-> 10, minute |-> 0]) @@ ("12:00" :> [hour |-> 12, minute |-> 0]) @@
    ("14:00" :> [hour |-> 14, minute |-> 0]) @@ ("16:00" :> [hour |-> 16, minute |-> 0]) @@
    ("17:00" :> [hour |-> 17, minute |-> 0]) @@ ("18:00" :> [hour |-> 18, minute |-> 0]) @@
    ("19:00" :> [hour |-> 19, minute |-> 0]) @@ ("21:00" :> [hour |-> 21, minute |-> 0]) @@
    ("22:00" :> [hour |-> 22, minute |-> 0]) @@ ("00:30" :> [hour |-> 0, minute |-> 30]) @@
    ("01:30" :> [hour |-> 1, minute |-> 30])

\* second of the day at which the cron job of a slot is due
cronSecond(time) == cronTime[time].hour * 3600 + cronTime[time].minute * 60

\* second of the day shown by a wall clock at the offset
wallClock(t, offset) == (t + offset) % SecPerDay

\* the job of the slot is due at t, by the wall clock of its time zone option
cronMatches(time, t) == wallClock(t, TehranOffset) = cronSecond(time)

\* now.toLocaleString("en-us", {weekday: "long"}) in the zone of the process;
\* the epoch day 0 is a Thursday
currentDayOf(t, offset) == Weekdays[((((t + offset) \div SecPerDay) + 3) % 7) + 1]

\* Object.entries(schedule): the slots of a stored template, in order
entriesOf(tasks) == SelectSeq(slotOrder, LAMBDA time : time \in DOMAIN tasks)

\* the cron jobs registered for the chat ids, in the order of registration
RECURSIVE registerJobs(_, _)
registerJobs(db, chatIds) ==
    IF chatIds = <<>> THEN <<>>
    ELSE LET chatId == Head(chatIds)
             schedule == getSchedule(db, ToStr(chatId))
             jobs == IF schedule.found
                     THEN LET slots == entriesOf(schedule.tasks)
                          IN  [i \in 1..Len(slots) |->
                                  [chatId |-> chatId, time |-> slots[i],
                                   task |-> schedule.tasks[slots[i]]]]
                     ELSE <<>>
         IN  jobs \o registerJobs(db, Tail(chatIds))

\* scheduleNotifications that registers the jobs of the first user only
scheduleNotifications_FirstUser(db) ==
    registerJobs(db, [i \in 1..Min(Len(db.users), 1) |-> db.users[i].chatId])

\* scheduleNotifications: one cron job per user of the store and slot of the
\* user's schedule
scheduleNotifications(db) ==
    registerJobs(db, [i \in 1..Len(db.users) |-> db.users[i].chatId])

\* the cron callback sending nothing when the workout or meal row is missing
notify_NoFallback(db, job, t, offset) ==
    LET chatId == ToStr(job.chatId)
        currentDay == currentDayOf(t, offset)
        currentWeek == calculateCurrentWeek(db, chatId, t)
    IN  IF job.time = "17:00"
        THEN LET workout == getWorkout(db, chatId, currentWeek, currentDay)
             IN  IF workout.found
                 THEN LET workoutMessage ==
                              "Time to workout!\n\n*" \o workout.row.title \o "*\n"
                                  \o workout.row.description
                      IN  << [chatId |-> job.chatId,
                              text |-> IF workout.row.details # ""
                                       THEN workoutMessage \o "\n\n*Details:*\n"
                                                \o workout.row.details
                                       ELSE workoutMessage,
                              markdown |-> TRUE] >>
                 ELSE <<>>
        ELSE IF job.time = "16:00" \/ job.time = "22:00"
        THEN LET mealType == IF job.time = "16:00" THEN "snack" ELSE "mainMeal"
                 mealName == IF mealType = "snack" THEN "snack" ELSE "main meal"
                 meal == getMeal(db, chatId, currentDay)
             IN  IF meal.found
                 THEN << [chatId |-> job.chatId,
                          text |-> "Time for your " \o mealName \o "!\n\n*"
                                       \o meal.row[mealType] \o "*",
                          markdown |-> TRUE] >>
                 ELSE <<>>
        ELSE << [chatId |-> job.chatId,
                 text |-> "*" \o job.task.title \o "*\n" \o job.task.description,
                 markdown |-> TRUE] >>

\* the cron callback with the week as it was when the process started
notify_StaleWeek(db, job, t, offset) ==
    LET chatId == ToStr(job.chatId)
        currentDay == currentDayOf(t, offset)
        currentWeek == calculateCurrentWeek(db, chatId, 0)
    IN  IF job.time = "17:00"
        THEN LET workout == getWorkout(db, chatId, currentWeek, currentDay)
             IN  IF workout.found
                 THEN LET workoutMessage ==
                              "Time to workout!\n\n*" \o workout.row.title \o "*\n"
                                  \o workout.row.description
                      IN  << [chatId |-> job.chatId,
                              text |-> IF workout.row.details # ""
                                       THEN workoutMessage \o "\n\n*Details:*\n"
                                                \o workout.row.details
                                       ELSE workoutMessage,
                              markdown |-> TRUE] >>
                 ELSE << [chatId |-> job.chatId,
                          text |-> "It's workout time! Check the mini-app for details.",
                          markdown |-> FALSE] >>
        ELSE IF job.time = "16:00" \/ job.time = "22:00"
        THEN LET mealType == IF job.time = "16:00" THEN "snack" ELSE "mainMeal"
                 mealName == IF mealType = "snack" THEN "snack" ELSE "main meal"
                 meal == getMeal(db, chatId, currentDay)
             IN  IF meal.found
                 THEN << [chatId |-> job.chatId,
                          text |-> "Time for your " \o mealName \o "!\n\n*"
                                       \o meal.row[mealType] \o "*",
                          markdown |-> TRUE] >>
                 ELSE << [chatId |-> job.chatId,
                          text |-> "It's time for your " \o mealName
                                       \o "! Check the mini-app for details.",
                          markdown |-> FALSE] >>
        ELSE << [chatId |-> job.chatId,
                 text |-> "*" \o job.task.title \o "*\n" \o job.task.description,
                 markdown |-> TRUE] >>

\* the cron callback of a job at time t in a process of the zone: the
\* sendMessage calls it makes, in order
notify(db, job, t, offset) ==
    LET chatId == ToStr(job.chatId)
        currentDay == currentDayOf(t, offset)
        currentWeek == calculateCurrentWeek(db, chatId, t)
    IN  IF job.time = "17:00"
        THEN LET workout == getWorkout(db, chatId, currentWeek, currentDay)
             IN  IF workout.found
                 THEN LET workoutMessage ==
                              "Time to workout!\n\n*" \o workout.row.title \o "*\n"
                                  \o workout.row.description
                      IN  << [chatId |-> job.chatId,
                              text |-> IF workout.row.details # ""
                                       THEN workoutMessage \o "\n\n*Details:*\n"
                                                \o workout.row.details
                                       ELSE workoutMessage,
                              markdown |-> TRUE] >>
                 ELSE << [chatId |-> job.chatId,
                          text |-> "It's workout time! Check the mini-app for details.",
                          markdown |-> FALSE] >>
        ELSE IF job.time = "16:00" \/ job.time = "22:00"
        THEN LET mealType == IF job.time = "16:00" THEN "snack" ELSE "mainMeal"
                 mealName == IF mealType = "snack" THEN "snack" ELSE "main meal"
                 meal == getMeal(db, chatId, currentDay)
             IN  IF meal.found
                 THEN << [chatId |-> job.chatId,
                          text |-> "Time for your " \o mealName \o "!\n\n*"
                                       \o meal.row[mealType] \o "*",
                          markdown |-> TRUE] >>
                 ELSE << [chatId |-> job.chatId,
                          text |-> "It's time for your " \o mealName
                                       \o "! Check the mini-app for details.",
                          markdown |-> FALSE] >>
        ELSE << [chatId |-> job.chatId,
                 text |-> "*" \o job.task.title \o "*\n" \o job.task.description,
                 markdown |-> TRUE] >>

\* the slot instants of a day, as seconds of the day on the cron wall clock
slotSeconds == {cronSecond(slotOrder[i]) : i \in 1..Len(slotOrder)}

\* the first instant after t at which a cron job of the template is due
nextSlotInstant(t) ==
    LET s == wallClock(t, TehranOffset)
        later == {x \in slotSeconds : x > s}
        first(S) == CHOOSE x \in S : \A y \in S : x <= y
    IN  IF later # {} THEN t + (first(later) - s)
        ELSE t + (SecPerDay - s) + first(slotSeconds)

----------------------------------------------------------------------------
(* Inputs *)

Monday1700 == <<"monday", "_", "1700">>
Monday1600 == <<"monday", "_", "1600">>
Tuesday1700 == <<"tuesday", "_", "1700">>
Water == <<"water">>

\* task keys sent by the client: "<day>_<slot>" keys and one key without a day
TaskKeys == {Monday1700, Monday1600, Water}

\* a db.json written before daily tracking existed: chat 1 enrolled at time 0,
\* with three task entries for week 1 and no daily, total or completed key
legacyWeek ==
    (Monday1700 :> Bool(TRUE)) @@ (Monday1600 :> Bool(FALSE)) @@ (Tuesday1700 :> Bool(TRUE))

legacyDb ==
    LET base == generate(emptyDb, ToStr(1), 0).db
    IN  [base EXCEPT !.users[1].progress = (1 :> legacyWeek)]

\* the db.json left by a run in which chat 1 enrolled at time 0
enrolledDb == generate(emptyDb, ToStr(1), 0).db

\* db.json files written before the meals or the workouts collection existed
\* (db.defaults adds the missing collection, empty)
noMealsDb == [enrolledDb EXCEPT !.meals = <<>>]

noWorkoutsDb == [enrolledDb EXCEPT !.workouts = <<>>]

\* a db.json written before start dates and plan rows existed: chat 1 has a
\* user record without startDate and a schedule, and nothing else
scheduleOnlyDb ==
    [users |-> << [chatId |-> 1, progress |-> EmptyObject] >>,
     schedules |-> << [chatId |-> 1, tasks |-> scheduleData] >>,
     workouts |-> <<>>,
     meals |-> <<>>]

\* the day parameter of GET /schedule: two day names, a name in the lower case
\* of the task keys, and "" for a query without day
RequestDays == {"Monday", "Thursday", "monday", ""}

\* update-progress requests that are in flight together
ConcurrentRequests ==
    {[chatId |-> 1, task |-> Monday1700, week |-> 1, completed |-> TRUE],
     [chatId |-> 1, task |-> Monday1600, week |-> 1, completed |-> TRUE],
     [chatId |-> 1, task |-> Monday1700, week |-> 1, completed |-> FALSE]}

----------------------------------------------------------------------------
(* The state machine *)

SetStore(db) ==
    /\ users' = db.users
    /\ schedules' = db.schedules
    /\ workouts' = db.workouts
    /\ meals' = db.meals

\* nothing has fired at the current instant
NothingSent == [kind |-> "none"]

\* the process has started on one of the db.json files, before the launch
\* callback has registered a cron job
Loaded(dbs) ==
    /\ \E db \in dbs :
          /\ users = db.users
          /\ schedules = db.schedules
          /\ workouts = db.workouts
          /\ meals = db.meals
    /\ now = 0
    /\ reply = [op |-> "none"]
    /\ updates = 0
    /\ running = TRUE
    /\ fired = {}
    /\ sent = NothingSent
    /\ pending = {}
    /\ served = <<>>

\* db.json is empty (db.defaults applies) or holds the legacy records.  The
\* specifications that start here do not follow the cron jobs: none is
\* registered and none fires.
Init ==
    /\ Loaded({emptyDb, legacyDb})
    /\ triggers = <<>>
    /\ zone = 0

\* the process has started on one of the db.json files in one of the zones
\* and the launch callback has run scheduleNotifications
Launched(dbs) ==
    /\ Loaded(dbs)
    /\ triggers = scheduleNotifications(DB)
    /\ zone \in ProcessZones

\* /generate sent by chat c
GenerateCmd(c) ==
    LET r == generate(DB, ToStr(c), now)
    IN  /\ SetStore(r.db)
        /\ reply' = [op |-> "generate", chatId |-> c, text |-> r.text]
        /\ UNCHANGED <<now, updates, scheduler, queue>>

\* /regenerate sent by chat c
RegenerateCmd(c) ==
    LET r == regenerate(DB, ToStr(c), now)
    IN  /\ SetStore(r.db)
        /\ reply' = [op |-> "regenerate", chatId |-> c, text |-> r.text]
        /\ UNCHANGED <<now, updates, scheduler, queue>>

\* POST /update-progress {chatId, task, week, completed}
UpdateProgressReq(c, task, week, completed) ==
    /\ updates < MaxUpdates
    /\ LET db == updateProgress(DB, ToStr(c), task, week, completed) IN SetStore(db)
    /\ reply' = [op |-> "updateProgress", chatId |-> c, task |-> task, week |-> week,
                 completed |-> completed,
                 body |-> [message |-> "Progress updated successfully.", success |-> TRUE]]
    /\ updates' = updates + 1
    /\ UNCHANGED <<now, scheduler, queue>>

\* GET /get-progress?chatId=&week=
GetProgressReq(c, week) ==
    LET r == getProgress(DB, ToStr(c), week)
    IN  /\ SetStore(r.db)
        /\ reply' = [op |-> "getProgress", chatId |-> c, week |-> week, body |-> r.body]
        /\ UNCHANGED <<now, updates, scheduler, queue>>

\* GET /current-week?chatId=
CurrentWeekReq(c) ==
    /\ reply' = [op |-> "currentWeek", chatId |-> c,
                 body |-> [week |-> calculateCurrentWeek(DB, ToStr(c), now)]]
    /\ UNCHANGED <<users, schedules, workouts, meals, now, updates, scheduler, queue>>

\* one program week passes
AdvanceWeek ==
    /\ now < MaxClockWeeks * DaysPerWeek * SecPerDay
    /\ now' = now + DaysPerWeek * SecPerDay
    /\ UNCHANGED <<users, schedules, workouts, meals, reply, updates, scheduler, queue>>

\* half a day passes
AdvanceHalfDay ==
    /\ now < MaxDays * SecPerDay
    /\ now' = now + (SecPerDay \div 2)
    /\ UNCHANGED <<users, schedules, workouts, meals, reply, updates, scheduler, queue>>

Next ==
    \/ \E c \in ChatIds : GenerateCmd(c)
    \/ \E c \in ChatIds : RegenerateCmd(c)
    \/ \E c \in ChatIds, task \in TaskKeys, week \in ReqWeeks, completed \in BOOLEAN :
          UpdateProgressReq(c, task, week, completed)
    \/ \E c \in ChatIds, week \in ReqWeeks : GetProgressReq(c, week)
    \/ AdvanceWeek

Spec == Init /\ [][Next]_vars

\* the week calculator against a fine-grained clock: chat 1 enrolls at any
\* half day, the clock runs on, and the current week is queried
WeekNext ==
    \/ GenerateCmd(1)
    \/ \E c \in ChatIds : CurrentWeekReq(c)
    \/ AdvanceHalfDay

WeekSpec == Init /\ [][WeekNext]_vars

\* GET /schedule?chatId=&day=
ScheduleReq(c, day) ==
    LET r == getScheduleResponse(DB, ToStr(c), day, now)
    IN  /\ reply' = [op |-> "schedule", chatId |-> c, day |-> day,
                     status |-> r.status, body |-> r.body]
        /\ UNCHANGED <<users, schedules, workouts, meals, now, updates, scheduler, queue>>

\* the requests for the day schedule and the current week, on stores with and
\* without plan rows, while chats enroll and weeks pass
DayInit ==
    /\ Loaded({emptyDb, enrolledDb, noMealsDb, noWorkoutsDb, scheduleOnlyDb})
    /\ triggers = <<>>
    /\ zone = 0

DayNext ==
    \/ \E c \in ChatIds, day \in RequestDays : ScheduleReq(c, day)
    \/ \E c \in ChatIds : CurrentWeekReq(c)
    \/ \E c \in ChatIds : GenerateCmd(c)
    \/ AdvanceWeek

DaySpec == DayInit /\ [][DayNext]_vars

\* the cron job i is due
Due(i) == cronMatches(triggers[i].time, now)

\* the cron job i fires: its callback runs to the end and the sendMessage
\* promise it leaves behind resolves or rejects.  Nothing handles a rejection:
\* depending on the node version the process goes on or exits.
Fire(i) ==
    /\ running
    /\ i \notin fired
    /\ Due(i)
    /\ \E delivered \in BOOLEAN, exits \in BOOLEAN :
          /\ delivered => ~exits
          /\ sent' = [kind |-> "fired", job |-> triggers[i],
                      messages |-> notify(DB, triggers[i], now, zone),
                      delivered |-> delivered]
          /\ running' = ~exits
          /\ triggers' = IF exits THEN <<>> ELSE triggers
          /\ fired' = IF exits THEN {} ELSE fired \cup {i}
    /\ UNCHANGED <<users, schedules, workouts, meals, now, reply, updates, zone, queue>>

\* days of a week, from its first instant, in which the clock stops at every
\* slot instant
MaxSlotDays == 1

\* the clock reaches the next slot instant, after every job due now has fired
NextSlot ==
    /\ running
    /\ \A i \in 1..Len(triggers) : Due(i) => i \in fired
    /\ now % (DaysPerWeek * SecPerDay) < MaxSlotDays * SecPerDay
    /\ now' = nextSlotInstant(now)
    /\ fired' = {}
    /\ sent' = NothingSent
    /\ UNCHANGED <<users, schedules, workouts, meals, reply, updates, triggers, running,
                   zone, queue>>

\* a week passes in the running process; its firings are not followed
WeekPasses ==
    /\ running
    /\ \A i \in 1..Len(triggers) : Due(i) => i \in fired
    /\ now < MaxClockWeeks * DaysPerWeek * SecPerDay
    /\ now' = now + DaysPerWeek * SecPerDay
    /\ fired' = {}
    /\ sent' = NothingSent
    /\ UNCHANGED <<users, schedules, workouts, meals, reply, updates, triggers, running,
                   zone, queue>>

\* the process is stopped, if it has not exited, and started again on the
\* db.json it left: the cron jobs of the old process are gone and the launch
\* callback registers the jobs of the new one, which first fire at the next
\* slot instant
Restart ==
    /\ triggers' = scheduleNotifications(DB)
    /\ running' = TRUE
    /\ fired' = {i \in 1..Len(triggers') : cronMatches(triggers'[i].time, now)}
    /\ sent' = NothingSent
    /\ reply' = [op |-> "none"]
    /\ UNCHANGED <<users, schedules, workouts, meals, now, updates, zone, queue>>

\* slot instants that the clock reaches while chats enroll
MaxNotifySlots == 3

\* the k-th slot instant after time 0
RECURSIVE slotInstant(_)
slotInstant(k) == IF k = 0 THEN 0 ELSE nextSlotInstant(slotInstant(k - 1))

\* the scheduler while chats enroll and the process restarts
NotifyInit == Launched({emptyDb, enrolledDb})

NotifyNext ==
    \/ running /\ \E c \in ChatIds : GenerateCmd(c)
    \/ running /\ \E c \in ChatIds : RegenerateCmd(c)
    \/ \E i \in 1..Len(triggers) : Fire(i)
    \/ now < slotInstant(MaxNotifySlots) /\ NextSlot
    \/ Restart

NotifySpec == NotifyInit /\ [][NotifyNext]_vars

\* the firings of the jobs of chat 1 over the weeks, on stores with and without
\* plan rows, while chat 1 starts its program over
FireInit == Launched({enrolledDb, noMealsDb, noWorkoutsDb, scheduleOnlyDb})

FireNext ==
    \/ running /\ RegenerateCmd(1)
    \/ \E i \in 1..Len(triggers) : Fire(i)
    \/ NextSlot
    \/ WeekPasses

FireSpec == FireInit /\ [][FireNext]_vars

\* an update-progress request arrives and waits for the event loop
Receive(r) ==
    /\ running
    /\ r \notin pending
    /\ \A k \in 1..Len(served) : served[k] # r
    /\ pending' = pending \cup {r}
    /\ UNCHANGED <<users, schedules, workouts, meals, now, reply, updates, scheduler, served>>

\* POST /update-progress as the event loop runs its handler for a waiting
\* request: the handler is synchronous and runs to the end
HandleUpdate(r) ==
    /\ running
    /\ r \in pending
    /\ LET db == updateProgress(DB, ToStr(r.chatId), r.task, r.week, r.completed)
       IN  SetStore(db)
    /\ reply' = [op |-> "updateProgress", chatId |-> r.chatId, task |-> r.task,
                 week |-> r.week, completed |-> r.completed,
                 body |-> [message |-> "Progress updated successfully.", success |-> TRUE]]
    /\ updates' = updates + 1
    /\ pending' = pending \ {r}
    /\ served' = Append(served, r)
    /\ UNCHANGED <<now, scheduler>>

\* update-progress requests in flight together while cron jobs fire
ServeInit == Launched({enrolledDb, legacyDb})

ServeNext ==
    \/ \E r \in ConcurrentRequests : Receive(r)
    \/ \E r \in ConcurrentRequests : HandleUpdate(r)
    \/ \E i \in 1..Len(triggers) : Fire(i)
    \/ NextSlot

ServeSpec == ServeInit /\ [][ServeNext]_vars

\* every operation that reads or writes a user record, side by side: the
\* commands, the progress, schedule and week requests, and the cron jobs
FrameInit == Launched({emptyDb, legacyDb})

FrameNext ==
    \/ running /\ \E c \in ChatIds : GenerateCmd(c)
    \/ running /\ RegenerateCmd(1)
    \/ running /\ \E completed \in BOOLEAN : UpdateProgressReq(1, Monday1700, 1, completed)
    \/ running /\ GetProgressReq(1, 1)
    \/ running /\ ScheduleReq(1, "Monday")
    \/ running /\ CurrentWeekReq(1)
    \/ \E i \in 1..Len(triggers) : Fire(i)
    \/ now < slotInstant(MaxNotifySlots) /\ NextSlot

FrameSpec == FrameInit /\ [][FrameNext]_vars

----------------------------------------------------------------------------
(* Vocabulary of the properties *)

ReservedKeys == {KeyDaily, KeyTotal, KeyCompleted}

\* the task entries recorded in a week object: every key but the three counters
TaskEntries(weekObj) == (DOMAIN weekObj) \ ReservedKeys

\* the week objects of the store that satisfy P
AllWeekObjects(P(_)) ==
    \A i \in 1..Len(users) :
        \A w \in DOMAIN ProgressOf(users[i]) : P(ProgressOf(users[i])[w])

SomeWeekObject(P(_)) ==
    \E i \in 1..Len(users) :
        \E w \in DOMAIN ProgressOf(users[i]) : P(ProgressOf(users[i])[w])

\* the daily counters of a week object, {} when it has none
DailyOf(weekObj) == IF KeyDaily \in DOMAIN weekObj THEN weekObj[KeyDaily].o ELSE EmptyObject

Enrolled(c) == FindIndex(users, c) # 0

\* the parsed start timestamp of an enrolled chat
StartOf(c) == ParseDate(users[FindIndex(users, c)].startDate)

----------------------------------------------------------------------------
(* ProgressTracker counters *)

\* C1: in every week object that carries the week counters, total equals the
\* number of task entries recorded for the week and completed the number of
\* those entries that are true.
C1_WeekTotalsMatchTasks ==
    AllWeekObjects(LAMBDA o :
        KeyTotal \in DOMAIN o =>
            /\ o[KeyTotal].n = Cardinality(TaskEntries(o))
            /\ o[KeyCompleted].n = Cardinality({k \in TaskEntries(o) : IsTrue(o[k])}))

\* C2: for every day that has a daily counter, the counter's total equals the
\* number of task entries whose key starts with "<day>_" and its completed the
\* number of those entries that are true.
C2_DailyCountersMatchTasks ==
    AllWeekObjects(LAMBDA o :
        \A day \in DOMAIN DailyOf(o) :
            /\ DailyOf(o)[day].total = Cardinality(DayKeys(o, day) \cap TaskEntries(o))
            /\ DailyOf(o)[day].completed =
                  Cardinality({k \in DayKeys(o, day) \cap TaskEntries(o) : IsTrue(o[k])}))

\* C3: every stored day counter has completed <= total.
C3_CompletedAtMostTotal ==
    AllWeekObjects(LAMBDA o :
        \A day \in DOMAIN DailyOf(o) : DailyOf(o)[day].completed <= DailyOf(o)[day].total)

----------------------------------------------------------------------------
(* WeekCalculator *)

\* the current week of chat c as the code computes it in this state
WeekOf(c) == calculateCurrentWeek(DB, ToStr(c), now)

\* C4: for an enrolled chat and now >= start, the current week lies in 1..8, and
\* while the start timestamp stays the same it never decreases as now increases.
C4_WeekInRangeAndMonotone ==
    /\ [](\A c \in ChatIds : (Enrolled(c) /\ now >= StartOf(c)) => WeekOf(c) \in 1..8)
    /\ [][\A c \in ChatIds :
            (Enrolled(c) /\ users' = users /\ now >= StartOf(c) /\ now' >= now)
                => WeekOf(c)' >= WeekOf(c)]_vars

\* C4 witness: a capped week has been answered at least eight weeks after an
\* enrollment that did not happen at time 0
C4_Witness ==
    /\ reply.op = "currentWeek"
    /\ Enrolled(reply.chatId)
    /\ StartOf(reply.chatId) > 0
    /\ now - StartOf(reply.chatId) >= 8 * DaysPerWeek * SecPerDay
    /\ reply.body.week = 8
    /\ WeekOf(reply.chatId) = 8

\* C5: with d the number of whole days elapsed since the start timestamp, the
\* current week is min(floor(d/7) + 1, 8): week w for 7(w-1) <= d < 7w when
\* d < 49 and 8 from then on; so 1 at d = 0, 2 at d = 10 and 8 at d = 60.
C5_WeekIsCappedDayQuotient ==
    \A c \in ChatIds :
        Enrolled(c) =>
            \A d \in 0..(MaxDays + 1) :
                (d * SecPerDay <= now - StartOf(c) /\ now - StartOf(c) < (d + 1) * SecPerDay)
                    => /\ d >= 49 => WeekOf(c) = 8
                       /\ d < 49 => (7 * (WeekOf(c) - 1) <= d /\ d < 7 * WeekOf(c))
                       /\ d = 0 => WeekOf(c) = 1
                       /\ d = 10 => WeekOf(c) = 2
                       /\ d = 60 => WeekOf(c) = 8

\* C5 witness: week 8 answered exactly 60 days after the enrollment
C5_Witness ==
    /\ reply.op = "currentWeek"
    /\ Enrolled(reply.chatId)
    /\ now - StartOf(reply.chatId) = 60 * SecPerDay
    /\ reply.body.week = 8
    /\ WeekOf(reply.chatId) = 8

----------------------------------------------------------------------------
(* Requests for users and weeks that are not there *)

\* no progress is recorded for chat c and week w in the user collection us
NoProgressRecorded(us, c, w) ==
    LET i == FindIndex(us, c)
    IN  i = 0 \/ w \notin DOMAIN ProgressOf(us[i])

\* C6: an update-progress request for a chat id that is not an enrolled user
\* is answered as a success and leaves users, schedules, workouts and meals
\* unchanged.
C6_UpdateForUnknownUserIsNoOp ==
    [][\A c \in ChatIds, task \in TaskKeys, week \in ReqWeeks, completed \in BOOLEAN :
          (~Enrolled(c) /\ UpdateProgressReq(c, task, week, completed))
              => (UNCHANGED store /\ reply'.body.success)]_vars

\* C6 witness: an update request has been served for a chat with no user record
C6_Witness ==
    /\ reply.op = "updateProgress"
    /\ ~Enrolled(reply.chatId)
    /\ updates > 0

\* C7: a get-progress request that directly follows a get-progress request for
\* the same chat and week is answered with the same body and leaves the store
\* unchanged, also when the first of the two did the backfill.
C7_GetProgressTwiceIsIdentical ==
    [][\A c \in ChatIds, week \in ReqWeeks :
          (/\ reply.op = "getProgress" /\ reply.chatId = c /\ reply.week = week
           /\ GetProgressReq(c, week))
              => (reply'.body = reply.body /\ UNCHANGED store)]_vars

\* C7 witness: the last answer is a backfilled week object (daily counters
\* present, no week totals) that is also what the store holds
C7_Witness ==
    /\ reply.op = "getProgress"
    /\ Enrolled(reply.chatId)
    /\ ~NoProgressRecorded(users, reply.chatId, reply.week)
    /\ KeyTotal \notin DOMAIN reply.body
    /\ DailyOf(reply.body) # EmptyObject
    /\ users[FindIndex(users, reply.chatId)].progress[reply.week] = reply.body

\* C8: a get-progress request for a chat or week with no recorded progress is
\* answered with {daily: {}, total: 0, completed: 0} and changes no record.
C8_GetProgressWithoutProgressIsZero ==
    [][\A c \in ChatIds, week \in ReqWeeks :
          (NoProgressRecorded(users, c, week) /\ GetProgressReq(c, week))
              => /\ DOMAIN reply'.body = {KeyDaily, KeyTotal, KeyCompleted}
                 /\ reply'.body[KeyDaily] = Obj(EmptyObject)
                 /\ reply'.body[KeyTotal] = Num(0)
                 /\ reply'.body[KeyCompleted] = Num(0)
                 /\ UNCHANGED store]_vars

\* C8 witness: get-progress answered for an enrolled chat whose week has no
\* recorded progress
C8_Witness ==
    /\ reply.op = "getProgress"
    /\ Enrolled(reply.chatId)
    /\ NoProgressRecorded(users, reply.chatId, reply.week)
    /\ reply.body[KeyTotal] = Num(0)

----------------------------------------------------------------------------
(* Enrollment *)

\* C9: a regenerate by chat c ends with exactly one user record of c, started
\* now and with empty progress, exactly one schedule holding the template, the
\* 56 generated workout rows and the 7 generated meal rows of c and no other
\* row of c, and the current week of c is 1.
C9_RegenerateStartsAfresh ==
    [][\A c \in ChatIds :
          (reply'.op = "regenerate" /\ reply'.chatId = c /\ RegenerateCmd(c))
              => /\ Len(RowsOf(users', c)) = 1
                 /\ ParseDate(RowsOf(users', c)[1].startDate) = now'
                 /\ RowsOf(users', c)[1].progress = EmptyObject
                 /\ Len(RowsOf(schedules', c)) = 1
                 /\ RowsOf(schedules', c)[1].tasks = scheduleData
                 /\ Len(RowsOf(workouts', c)) = 56
                 /\ RowsOf(workouts', c) = workoutRows[c]
                 /\ Len(RowsOf(meals', c)) = 7
                 /\ RowsOf(meals', c) = mealRows[c]
                 /\ WeekOf(c)' = 1]_vars

\* C9 witness: a chat that had recorded progress in an earlier program has
\* regenerated after the clock moved on
C9_Witness ==
    /\ reply.op = "regenerate"
    /\ Enrolled(reply.chatId)
    /\ now > 0
    /\ StartOf(reply.chatId) = now
    /\ updates > 0
    /\ ProgressOf(users[FindIndex(users, reply.chatId)]) = EmptyObject
    /\ Len(users) = 2

\* C10: a generate by a chat that already has a user record changes no record
\* of the store and replies only that a plan already exists.
C10_GenerateForEnrolledIsRejected ==
    [][\A c \in ChatIds :
          (Enrolled(c) /\ GenerateCmd(c))
              => (UNCHANGED store /\ reply'.text = AlreadyHavePlan)]_vars

\* C10 witness: the rejection has been replied to a chat that has progress
C10_Witness ==
    /\ reply.op = "generate"
    /\ reply.text = AlreadyHavePlan
    /\ Enrolled(reply.chatId)
    /\ ProgressOf(users[FindIndex(users, reply.chatId)]) # EmptyObject

----------------------------------------------------------------------------
(* The day schedule *)

HasSchedule(c) == FindIndex(schedules, c) # 0

\* the stored template of a chat that has a schedule
TemplateOf(c) == schedules[FindIndex(schedules, c)].tasks

\* the workout rows of chat c for its current week and the day
WorkoutRowsFor(c, day) ==
    {workouts[i] : i \in {j \in 1..Len(workouts) :
        workouts[j].chatId = c /\ workouts[j].week = WeekOf(c) /\ workouts[j].day = day}}

\* the meal rows of chat c for the day
MealRowsFor(c, day) ==
    {meals[i] : i \in {j \in 1..Len(meals) : meals[j].chatId = c /\ meals[j].day = day}}

\* the day parameters that name a day
NamedDays == RequestDays \ {""}

C19_DayScheduleEntries ==
    [][\A c \in ChatIds, day \in NamedDays :
          (HasSchedule(c) /\ ScheduleReq(c, day))
              => \A time \in DOMAIN TemplateOf(c) :
                    LET task == TemplateOf(c)[time]
                        got == reply'.body[time]
                        ws == WorkoutRowsFor(c, day)
                        ms == MealRowsFor(c, day)
                    IN  /\ (time = "17:00" /\ ws # {}) =>
                              /\ DOMAIN got = DOMAIN task
                              /\ \E w \in ws : got.title = w.title
                                                /\ got.description = w.description
                        /\ (time = "16:00" /\ ms # {}) =>
                              /\ DOMAIN got = (DOMAIN task) \cup {"mealContent"}
                              /\ got.title = task.title
                              /\ got.description = task.description
                              /\ \E m \in ms : got.mealContent = m.snack
                        /\ (time = "22:00" /\ ms # {}) =>
                              /\ DOMAIN got = (DOMAIN task) \cup {"mealContent"}
                              /\ got.title = task.title
                              /\ got.description = task.description
                              /\ \E m \in ms : got.mealContent = m.mainMeal
                        /\ (time = "17:00" /\ ws = {}) => got = task
                        /\ (time \in {"16:00", "22:00"} /\ ms = {}) => got = task
                        /\ time \notin {"16:00", "17:00", "22:00"} => got = task]_vars

\* C19 witness: the day schedule of a Monday in week 2 has been answered with
\* the run of that week and the meals of the day
C19_Witness ==
    /\ reply.op = "schedule"
    /\ reply.day = "Monday"
    /\ reply.status = 200
    /\ Enrolled(reply.chatId)
    /\ WeekOf(reply.chatId) = 2
    /\ reply.body["17:00"].title = "35 min Run (easy pace)"
    /\ MealRowsFor(reply.chatId, reply.day) # {}
    /\ "mealContent" \in DOMAIN reply.body["16:00"]
    /\ "mealContent" \in DOMAIN reply.body["22:00"]
    /\ reply.body["16:00"].mealContent = "Handful of almonds and a small apple."
    /\ reply.body["22:00"].mealContent = "Grilled chicken breast with rice and salad"
    /\ reply.body["12:00"] = scheduleData["12:00"]

\* C17: for a chat that has no user record, or whose user record has no start
\* date, the current week is 1, at any time.
C17_NoStartDateIsWeekOne ==
    \A c \in ChatIds :
        (~Enrolled(c) \/ "startDate" \notin DOMAIN users[FindIndex(users, c)])
            => /\ WeekOf(c) = 1
               /\ (reply.op = "currentWeek" /\ reply.chatId = c) => reply.body.week = 1

\* C17 witness: week 1 has been answered, a week after the process started, for
\* a chat whose user record has no start date
C17_Witness ==
    /\ reply.op = "currentWeek"
    /\ Enrolled(reply.chatId)
    /\ "startDate" \notin DOMAIN users[FindIndex(users, reply.chatId)]
    /\ now >= DaysPerWeek * SecPerDay
    /\ reply.body.week = 1

----------------------------------------------------------------------------
(* The notification scheduler *)

\* the jobs registered for chat c and the slot
JobsOf(c, time) == {i \in 1..Len(triggers) : triggers[i].chatId = c /\ triggers[i].time = time}

\* the (chat, slot) pairs of the store: the users with a schedule, by the slots
\* of their template
StorePairs ==
    {p \in ChatIds \X (DOMAIN scheduleData) :
        Enrolled(p[1]) /\ HasSchedule(p[1]) /\ p[2] \in DOMAIN TemplateOf(p[1])}

\* the registered jobs are one per (chat, slot) pair of the store and no other,
\* each with the template entry of its slot
JobsMatchStore ==
    /\ \A p \in StorePairs : Cardinality(JobsOf(p[1], p[2])) = 1
    /\ \A i \in 1..Len(triggers) :
          /\ <<triggers[i].chatId, triggers[i].time>> \in StorePairs
          /\ triggers[i].task = TemplateOf(triggers[i].chatId)[triggers[i].time]

\* C12: when the scheduler is built, at the start of the process and at every
\* restart, the registered jobs are one per (user enrolled then, slot of the
\* user's schedule) and no other; while the process runs no later step changes
\* them, so a chat that enrolls after the build has no job until a restart, and
\* every reminder dispatched is the one of a registered job, sent to its chat.
C12_TriggersAreBuildSnapshot ==
    /\ JobsMatchStore
    /\ [][/\ Restart => JobsMatchStore'
          /\ (running' /\ ~Restart) => triggers' = triggers
          /\ \A c \in ChatIds :
                (~Enrolled(c) /\ running /\ GenerateCmd(c))
                    => (Enrolled(c)' /\ \A time \in DOMAIN scheduleData : JobsOf(c, time)' = {})
          /\ \A i \in 1..Len(triggers) :
                Fire(i) => /\ sent'.job = triggers[i]
                           /\ \A k \in 1..Len(sent'.messages) :
                                 sent'.messages[k].chatId = triggers[i].chatId]_vars
    /\ [](\A i \in 1..Len(triggers) : Enrolled(triggers[i].chatId))

\* C12 witness: chat 2 has enrolled after the build and has a schedule and no
\* job; at a later slot instant every due job has fired, all of them for chat 1
C12_Witness ==
    /\ running
    /\ Enrolled(2) /\ HasSchedule(2)
    /\ \A time \in DOMAIN scheduleData : JobsOf(2, time) = {}
    /\ now > StartOf(2)
    /\ fired # {}
    /\ \A i \in 1..Len(triggers) : Due(i) => (i \in fired /\ triggers[i].chatId = 1)
    /\ sent.kind = "fired"
    /\ sent.job.chatId = 1

\* C14: after a firing whose message the transport rejected, the process is
\* still running and the job that fired is still registered.
C14_FailedDispatchIsContained ==
    (sent.kind = "fired" /\ ~sent.delivered)
        => /\ running
           /\ \E i \in 1..Len(triggers) : triggers[i] = sent.job

\* today's day name in the zone of the process
Today == currentDayOf(now, zone)

\* the text of the workout reminder for a workout row
WorkoutText(w) ==
    "Time to workout!\n\n*" \o w.title \o "*\n" \o w.description
        \o (IF w.details # "" THEN "\n\n*Details:*\n" \o w.details ELSE "")

\* C13: every firing of a job dispatches exactly one message, to the job's
\* chat.  For the slot "17:00" it is the workout message of the workout row of
\* the chat's current week and today when that row exists and the "check the
\* mini-app" text otherwise; for "16:00" and "22:00" it carries the snack or
\* the main meal of today's meal row, or is the "check the mini-app" text when
\* there is no such row; for every other slot it is the title and description
\* of the template entry.  A missing row makes no firing fail.
C13_FiringDispatchesOneMessage ==
    [][\A i \in 1..Len(triggers) :
          Fire(i) =>
            LET job == triggers[i]
                ws == WorkoutRowsFor(job.chatId, Today)
                ms == MealRowsFor(job.chatId, Today)
                out == sent'.messages
            IN  /\ Len(out) = 1
                /\ out[1].chatId = job.chatId
                /\ (job.time = "17:00" /\ ws # {}) =>
                      \E w \in ws : out[1].text = WorkoutText(w)
                /\ (job.time = "17:00" /\ ws = {}) =>
                      out[1].text = "It's workout time! Check the mini-app for details."
                /\ (job.time = "16:00" /\ ms # {}) =>
                      \E m \in ms :
                          out[1].text = "Time for your snack!\n\n*" \o m.snack \o "*"
                /\ (job.time = "16:00" /\ ms = {}) =>
                      out[1].text = "It's time for your snack! Check the mini-app for details."
                /\ (job.time = "22:00" /\ ms # {}) =>
                      \E m \in ms :
                          out[1].text = "Time for your main meal!\n\n*" \o m.mainMeal \o "*"
                /\ (job.time = "22:00" /\ ms = {}) =>
                      out[1].text =
                          "It's time for your main meal! Check the mini-app for details."
                /\ job.time \notin {"16:00", "17:00", "22:00"} =>
                      out[1].text = "*" \o TemplateOf(job.chatId)[job.time].title \o "*\n"
                                        \o TemplateOf(job.chatId)[job.time].description]_vars

\* C13 witness: the workout job has fired on a day without workout row and
\* with a meal row, and the one message dispatched is the fallback text
C13_Witness ==
    /\ sent.kind = "fired"
    /\ sent.job.time = "17:00"
    /\ WorkoutRowsFor(sent.job.chatId, Today) = {}
    /\ MealRowsFor(sent.job.chatId, Today) # {}
    /\ Len(sent.messages) = 1
    /\ sent.messages[1].text = "It's workout time! Check the mini-app for details."

\* the workout name of the plan for the week and the day
PlanTitle(week, day) ==
    workoutPlans[week].schedule[CHOOSE d \in 1..Len(Weekdays) : Weekdays[d] = day]

\* C18: a regenerate leaves the registered jobs as they are, and a firing of
\* the workout job looks the week up when it fires: while the chat is in the
\* first seven days of its current program and has the workout row of week 1
\* for today, the message is the workout of week 1 of that program, also when
\* the program was started over after the job was registered.
C18_FiringReadsStoreAtFireTime ==
    [][/\ (running /\ RegenerateCmd(1)) => (triggers' = triggers /\ fired' = fired)
       /\ \A i \in 1..Len(triggers) :
             (/\ triggers[i].time = "17:00"
              /\ Enrolled(triggers[i].chatId)
              /\ "startDate" \in DOMAIN users[FindIndex(users, triggers[i].chatId)]
              /\ now >= StartOf(triggers[i].chatId)
              /\ now - StartOf(triggers[i].chatId) < DaysPerWeek * SecPerDay
              /\ \E k \in 1..Len(workouts) :
                    /\ workouts[k].chatId = triggers[i].chatId
                    /\ workouts[k].week = 1
                    /\ workouts[k].day = Today
              /\ Fire(i))
                 => /\ Len(sent'.messages) = 1
                    /\ sent'.messages[1].text =
                          WorkoutText([title |-> PlanTitle(1, Today),
                                       description |-> "Workout for " \o Today,
                                       details |-> workoutDetails(PlanTitle(1, Today))])]_vars

\* C18 witness: the workout job registered at the start has fired after chat 1
\* started over in the second week of its first program, and the message is
\* the Thursday run of week 1, not the rest day of week 2
C18_Witness ==
    /\ sent.kind = "fired"
    /\ sent.job.time = "17:00"
    /\ sent.job.chatId = 1
    /\ Today = "Thursday"
    /\ "startDate" \in DOMAIN users[FindIndex(users, 1)]
    /\ StartOf(1) >= DaysPerWeek * SecPerDay
    /\ now >= StartOf(1)
    /\ sent.messages[1].text =
          "Time to workout!\n\n*30 min Run (easy pace)*\nWorkout for Thursday"
              \o "\n\n*Details:*\nStart with a pace you can maintain comfortably."

----------------------------------------------------------------------------
(* Requests in flight together *)

\* the week object of chat c for the week, {} when there is none
WeekObject(us, c, w) ==
    LET i == FindIndex(us, c)
    IN  IF i # 0 /\ w \in DOMAIN ProgressOf(us[i]) THEN ProgressOf(us[i])[w] ELSE EmptyObject

\* C15: update-progress requests that are in flight together are handled one
\* at a time, in some order, whatever cron jobs fire in between: each handling
\* changes no task entry but its own, and in every state each handled request
\* of an enrolled chat has its task entry in the week object, with the value
\* of the last handled request for that entry.
C15_UpdatesAreSerialized ==
    /\ [](\A k \in 1..Len(served) :
            LET r == served[k]
                w == WeekObject(users, r.chatId, r.week)
            IN  Enrolled(r.chatId) =>
                  /\ r.task \in DOMAIN w
                  /\ (\A j \in (k + 1)..Len(served) :
                          ~(/\ served[j].chatId = r.chatId
                            /\ served[j].week = r.week
                            /\ served[j].task = r.task))
                        => w[r.task] = Bool(r.completed))
    /\ [][\A r \in ConcurrentRequests :
            HandleUpdate(r) =>
              /\ served' = Append(served, r)
              /\ \A c \in ChatIds, w \in ReqWeeks :
                    \A key \in TaskEntries(WeekObject(users, c, w)) :
                        (c # r.chatId \/ w # r.week \/ key # r.task)
                            => /\ key \in DOMAIN WeekObject(users', c, w)
                               /\ WeekObject(users', c, w)[key] = WeekObject(users, c, w)[key]]_vars

\* C15 witness: three requests were in flight together, a cron job fired
\* between two handlings, and all three are handled: both task entries are
\* there, next to the older entry of another day
C15_Witness ==
    /\ Len(served) = 3
    /\ pending = {}
    /\ fired # {}
    /\ now > 0
    /\ Tuesday1700 \in DOMAIN WeekObject(users, 1, 1)
    /\ WeekObject(users, 1, 1)[Monday1600] = Bool(TRUE)
    /\ WeekObject(users, 1, 1)[Monday1700] = Bool(FALSE)

----------------------------------------------------------------------------
(* Task keys without a day *)

\* C16: an update-progress request of an enrolled chat with the task key
\* "water", which has no "_", is answered as a success, stores the completion
\* value under the key, leaves every daily counter as it was and creates none,
\* and leaves the week totals equal to the number of task entries of the week
\* and the number of those that are true.
C16_KeyWithoutDayUpdatesTotalsOnly ==
    [][\A c \in ChatIds, week \in ReqWeeks, completed \in BOOLEAN :
          (Enrolled(c) /\ UpdateProgressReq(c, Water, week, completed))
              => LET before == WeekObject(users, c, week)
                     after == WeekObject(users', c, week)
                 IN  /\ reply'.body.success
                     /\ Water \in DOMAIN after
                     /\ after[Water] = Bool(completed)
                     /\ DailyOf(after) = DailyOf(before)
                     /\ after[KeyTotal].n = Cardinality(TaskEntries(after))
                     /\ after[KeyCompleted].n =
                           Cardinality({k \in TaskEntries(after) : IsTrue(after[k])})]_vars

----------------------------------------------------------------------------
(* One record per key *)

\* C20: whatever generate and regenerate commands the chats have sent, the
\* store holds at most one user record and at most one schedule per chat id, at
\* most one workout row per (chat id, week, day) and at most one meal row per
\* (chat id, day).
C20_OneRecordPerKey ==
    /\ \A c \in ChatIds : Len(RowsOf(users, c)) <= 1 /\ Len(RowsOf(schedules, c)) <= 1
    /\ Cardinality({<<workouts[i].chatId, workouts[i].week, workouts[i].day>> :
                        i \in 1..Len(workouts)}) = Len(workouts)
    /\ Cardinality({<<meals[i].chatId, meals[i].day>> : i \in 1..Len(meals)}) = Len(meals)

\* C20 witness: both chats have a plan and the last command, a regenerate, was
\* sent by a chat that had recorded progress in its earlier program
C20_Witness ==
    /\ reply.op = "regenerate"
    /\ updates > 0
    /\ Len(users) = 2
    /\ Len(schedules) = 2
    /\ Len(workouts) = 112
    /\ Len(meals) = 14
    /\ \A i \in 1..Len(users) : ProgressOf(users[i]) = EmptyObject

----------------------------------------------------------------------------
(* The start timestamp *)

\* chat c has a user record that carries a start date
HasStart(us, c) ==
    FindIndex(us, c) # 0 /\ "startDate" \in DOMAIN us[FindIndex(us, c)]

\* C21: once the user record of a chat carries a start date, every step keeps
\* the record's start date as it is, unless the step is a regenerate of that
\* chat: update-progress, get-progress, schedule and current-week requests, a
\* rejected generate, a generate of another chat and the firing of a cron job
\* leave it unchanged.
C21_StartDateChangesOnlyByRegenerate ==
    [][\A c \in ChatIds :
          (HasStart(users, c)
           /\ ~(/\ HasStart(users', c)
                /\ users'[FindIndex(users', c)].startDate
                      = users[FindIndex(users, c)].startDate))
              => RegenerateCmd(c)]_vars

\* C21 witness: chat 1, enrolled at time 0, has recorded progress, a cron job
\* has fired for it at a later instant and its generate has been rejected;
\* its start date is still the one of its enrollment
C21_Witness ==
    /\ reply.op = "generate"
    /\ reply.chatId = 1
    /\ reply.text = AlreadyHavePlan
    /\ updates > 0
    /\ sent.kind = "fired"
    /\ sent.job.chatId = 1
    /\ now > 0
    /\ HasStart(users, 1)
    /\ StartOf(1) = 0
    /\ KeyTotal \in DOMAIN WeekObject(users, 1, 1)

----------------------------------------------------------------------------
(* Repeated updates *)

\* C22: an update-progress request of an enrolled chat that directly follows
\* the same request (same chat, week, task key and completion value) leaves the
\* week object, with its task entries, daily counters, total and completed,
\* exactly as the first request left it.
C22_RepeatedUpdateChangesNothing ==
    [][\A c \in ChatIds, task \in TaskKeys, week \in ReqWeeks, completed \in BOOLEAN :
          (/\ reply.op = "updateProgress"
           /\ reply.chatId = c /\ reply.task = task
           /\ reply.week = week /\ reply.completed = completed
           /\ Enrolled(c)
           /\ UpdateProgressReq(c, task, week, completed))
              => WeekObject(users', c, week) = WeekObject(users, c, week)]_vars

====
